---- MODULE Spec2Model ----
(***************************************************************************)
(* Model of the download core of the Telegram leech bot                    *)
(* (src/downloader.py, src/helpers.py): the Direct Fetcher                 *)
(* (DirectDownloader), the Daemon Client (Aria2Downloader) and the         *)
(* orchestrator (DownloadManager).                                         *)
(*                                                                         *)
(* Python strings are modelled as sequences of one-character strings.      *)
(* None is written NoneV where the code distinguishes it from a value.     *)
(***************************************************************************)
EXTENDS Integers, Sequences, FiniteSets, TLC

(***************************************************************************)
(* Bounds of the model                                                     *)
(***************************************************************************)
\* most chunks one HTTP response body delivers
MaxChunks == 2
\* download calls made on one DownloadManager
MaxCalls == 2
\* refreshes within which the daemon ends a job
MaxPolls == 2
\* longest filename handed to sanitize_filename
MaxNameLen == 4

(***************************************************************************)
(* String helpers (str methods used by the code)                           *)
(***************************************************************************)
Min(a, b) == IF a < b THEN a ELSE b

Max(a, b) == IF a > b THEN a ELSE b

\* s.startswith(p)
StartsWith(s, p) == Len(s) >= Len(p) /\ SubSeq(s, 1, Len(p)) = p

\* s.endswith(p)
EndsWith(s, p) == Len(s) >= Len(p) /\ SubSeq(s, Len(s) - Len(p) + 1, Len(s)) = p

\* index of the last occurrence of character c in s, 0 when absent
LastIndexOf(s, c) ==
    LET I == {i \in 1..Len(s) : s[i] = c}
    IN  IF I = {} THEN 0 ELSE CHOOSE i \in I : \A j \in I : j <= i

\* index of the first occurrence of character c in s, 0 when absent
FirstIndexOf(s, c) ==
    LET I == {i \in 1..Len(s) : s[i] = c}
    IN  IF I = {} THEN 0 ELSE CHOOSE i \in I : \A j \in I : i <= j

\* s.split(c)[-1]
SplitLast(s, c) == SubSeq(s, LastIndexOf(s, c) + 1, Len(s))

\* s.split(c)[0]
SplitFirst(s, c) ==
    IF FirstIndexOf(s, c) = 0 THEN s ELSE SubSeq(s, 1, FirstIndexOf(s, c) - 1)

\* s[:n] with Python's slice semantics (a negative n counts from the end)
SliceTo(s, n) ==
    IF n >= 0 THEN SubSeq(s, 1, Min(n, Len(s)))
    ELSE SubSeq(s, 1, Max(0, Len(s) + n))

\* s.strip(chars)
Strip(s, chars) ==
    LET K == {i \in 1..Len(s) : s[i] \notin chars}
    IN  IF K = {} THEN <<>>
        ELSE SubSeq(s, CHOOSE i \in K : \A j \in K : i <= j,
                       CHOOSE i \in K : \A j \in K : j <= i)

(***************************************************************************)
(* helpers.sanitize_filename                                               *)
(***************************************************************************)
\* the character class [<>:"/\\|?*\x00-\x1f]; "\t" and "\n" stand for the
\* control characters
IllegalChars == {"<", ">", ":", "\"", "/", "\\", "|", "?", "*", "\t", "\n"}

ReplaceIllegalAndSpace(s) ==
    [i \in 1..Len(s) |-> IF s[i] \in IllegalChars \cup {" "} THEN "_" ELSE s[i]]

\* re.sub(r'[<>:"/\\|?*\x00-\x1f]', '_', filename)
ReplaceIllegal(s) == [i \in 1..Len(s) |-> IF s[i] \in IllegalChars THEN "_" ELSE s[i]]

DefaultNameFile == <<"f", "i", "l", "e">>

\* filename = 'download'
DefaultName == <<"d", "o", "w", "n", "l", "o", "a", "d">>

DefaultMaxLength == 255

TruncateNameNot(name, max_name_length) == name

\* if len(name) > max_name_length: name = name[:max_name_length]
TruncateName(name, max_name_length) ==
    IF Len(name) > max_name_length THEN SliceTo(name, max_name_length) ELSE name

TruncateFinalNot(sanitized, max_length) == sanitized

\* if len(sanitized) > max_length: sanitized = sanitized[:max_length]
TruncateFinal(sanitized, max_length) ==
    IF Len(sanitized) > max_length THEN SliceTo(sanitized, max_length) ELSE sanitized

StripSpaces(s) == Strip(s, {" "})

\* filename.strip('. ')
StripEdges(s) == Strip(s, {".", " "})

sanitize_filename(filename, max_length) ==
    LET stripped == StripEdges(ReplaceIllegal(filename))
        fname == IF stripped = <<>> THEN DefaultName ELSE stripped
        dot == LastIndexOf(fname, ".")
        name == IF dot > 0 THEN SubSeq(fname, 1, dot - 1) ELSE fname
        ext == IF dot > 0 THEN SubSeq(fname, dot, Len(fname)) ELSE <<>>
        max_name_length == max_length - Len(ext)
        name2 == TruncateName(name, max_name_length)
    IN  TruncateFinal(name2 \o ext, max_length)

\* stands for the result while sanitize_filename has not returned: it is no
\* string of characters
NotCalled == <<"not called">>

\* the characters of the filenames handed to sanitize_filename
NameChars == {"a", ".", " ", "/", "\n"}

Names == UNION {[1..n -> NameChars] : n \in 0..MaxNameLen}

\* n times the character c
Rep(c, n) == [i \in 1..n |-> c]

\* filenames longer than the default max_length, and filenames with a
\* backslash
HostileNames ==
    { Rep("a", 256),
      <<"a", ".">> \o Rep("b", 300),
      Rep("a", 254) \o <<".", ".">>,
      <<".">> \o Rep("a", 255),
      Rep("a", 253) \o <<" ", ".", "b">>,
      Rep("a", 100) \o <<".">> \o Rep("b", 300),
      Rep(".", 300),
      Rep("/", 256),
      <<".", ".", "\\", "a">>,
      <<"\\", ".", ".">> }

\* the max_length arguments: the default and small ones
MaxLengths == 0..(MaxNameLen + 1) \cup {DefaultMaxLength}


(***************************************************************************)
(* State                                                                   *)
(***************************************************************************)
VARIABLES
    pc,            \* position of the running task ("idle" before the first call)
    result,        \* outcome of the running or last finished call
    calls,         \* number of download calls made so far on the instance
    reported,      \* the last progress callback made since the caller's call began
    \* ---- DirectDownloader ----
    session,       \* DirectDownloader._session: "None", "open" or "closed"
    sessions,      \* the sessions the instance has created, oldest first, each
                   \* "open" or "closed"; _session is the last of them
    dargs,         \* arguments of the running DirectDownloader.download call
    filepath,      \* local filepath: <<download_dir, filename>>
    retry_count,   \* local retry_count
    total_size,    \* local total_size
    downloaded,    \* local downloaded
    resp,          \* the response of the current attempt
    pos,           \* chunks of resp consumed so far
    served,        \* kinds of the responses served to this call, one per GET issued
    disk,          \* files under download_dir: path -> the chunks written, each
                   \* with the attempt that wrote it (0: before the call)
    sleeps,        \* asyncio.sleep durations of the running fetch or monitor
                   \* loop, in order
    cbCount,       \* progress callbacks made during this call
    writes,        \* f.write calls made by this call
    lastCb,        \* arguments of the last progress callback of this call
    lastErr,       \* exception caught last by this call
    \* ---- DownloadManager ----
    req,           \* arguments of the running DownloadManager.download call
    aria2_available, \* DownloadManager._aria2_available: "None", "True", "False"
    via,           \* the Aria2Downloader method the call awaits, "none" if none
    directInvoked, \* the call has invoked DirectDownloader.download
    probes,        \* connect() calls made by _is_aria2_available so far
    \* ---- Aria2Downloader ----
    aria2,         \* Aria2Downloader.aria2: 0 for None, else the n-th client created
    connected,     \* Aria2Downloader._connected
    conn,          \* locals of the running connect() call
    csleeps,       \* time.sleep durations of the connect() calls of this call
    job,           \* the Download object being monitored
    submitted,     \* add_* operations this call has submitted, in order
    polls,         \* refreshes made by the monitor loop of this call
    \* ---- the daemon ----
    daemonUp,      \* the daemon answers RPC calls
    daemonSeenUp,  \* the daemon has been up at some moment of the running call
    \* ---- the chat layer (bot.py) ----
    closes,        \* DownloadManager.close() calls made on the manager in use
    \* ---- several requests on one event loop ----
    task,          \* task -> the locals and position of its request
    holder,        \* the task that runs on the loop's thread, 0 when the thread
                   \* is free for any task that is ready
    fdisk,         \* files under download_dir, byte by byte: path -> for every
                   \* byte the task that wrote it (0: a hole)
    \* ---- a sanitize_filename call ----
    s_filename,    \* argument filename
    s_max_length,  \* argument max_length
    s_result,      \* the value returned, NotCalled before the call
    \* ---- bot.authorized_only ----
    auth           \* Config.AUTHORIZED_USERS, the sender of the last update, and
                   \* what the wrapper did so far: handler bodies run, replies
                   \* sent

dvars == <<session, sessions, dargs, filepath, retry_count, total_size, downloaded, resp,
           pos, served, disk, sleeps, cbCount, writes, lastCb, lastErr>>

ovars == <<req, aria2_available, via, directInvoked, probes, aria2, connected,
           conn, csleeps, job, submitted, polls, daemonUp, daemonSeenUp>>

evars == <<closes, task, holder, fdisk, auth, s_filename, s_max_length,
           s_result>>

vars == <<pc, result, calls, reported, dvars, ovars, evars>>

(***************************************************************************)
(* Values                                                                  *)
(***************************************************************************)
NoneV == "None"

\* an exception caught inside a retry loop: its class and the attempt that
\* raised it
Err(cls, at) == [cls |-> cls, at |-> at]

NoErr == Err("none", 0)

NoResult ==
    [kind |-> "none", path |-> <<>>, cls |-> "none", msg |-> "none",
     cause |-> NoErr, text |-> <<>>]

\* a call that returned the path p
Returned(p) ==
    [kind |-> "path", path |-> p, cls |-> "none", msg |-> "none",
     cause |-> NoErr, text |-> <<>>]

\* a call that raised an exception of class cls; msg is the fixed part of
\* its message, cause the exception it reports, text the daemon's words
Raised(cls, msg, cause, text) ==
    [kind |-> "error", path |-> <<>>, cls |-> cls, msg |-> msg,
     cause |-> cause, text |-> text]

\* connect() returned True
ReturnedTrue == [NoResult EXCEPT !.kind = "True"]

\* connect() fell off its end: it returned None
ReturnedNone == [NoResult EXCEPT !.kind = "None"]

\* a function object where a string is expected (it is truthy and no str)
FunctionObject == <<"<function progress_callback>">>

IsStr(f) == f # FunctionObject

\* the requests in flight on one event loop
Tasks == {1, 2}

NoTask ==
    [pc |-> "new", use_aria2 |-> FALSE, filename |-> <<>>, attempt |-> 0,
     offset |-> 0, downloaded |-> 0, polls |-> 0, result |-> <<>>]

\* Telegram user ids
Users == {1, 2, 3}

\* the updates handled in a row
MaxUpdates == 3

\* no update handled yet, nobody on the allow-list
NoAuth == [allowed |-> {}, user |-> 0, updates |-> 0, ran |-> 0, denied |-> 0]

\* the filenames the concurrent requests ask for
LoopNames == {<<"a">>, <<"b">>}

NoCb == [downloaded |-> 0, total |-> 0, pct_num |-> 0, pct_den |-> 1, speed |-> 0]

\* no progress callback yet; by is "direct" or "monitor" once there is one,
\* attempt the Direct Fetcher attempt that made it (0 for the monitor)
NoReport == [by |-> "none", attempt |-> 0, bytes |-> 0]

NoResp == [kind |-> "none", clen |-> 0, chunks |-> <<>>]

\* the configured download_dir, as one path component
DownloadDir == <<"d", "l">>

(***************************************************************************)
(* The HTTP side (aiohttp) as the Direct Fetcher sees it                   *)
(***************************************************************************)
U_file == <<"h", "t", "t", "p", ":", "/", "/", "h", "/", "a", ".", "b">>

U_dir == <<"h", "t", "t", "p", ":", "/", "/", "h", "/">>

F_given == <<"c", "?">>

\* a URL whose last path segment is '..'
U_dots == <<"h", "t", "t", "p", ":", "/", "/", "h", "/", ".", ".">>

\* (url, filename) arguments; the empty filename stands for both None and ''
DirectArgs == {<<U_file, <<>> >>, <<U_dir, <<>> >>, <<U_file, F_given>>}

\* int(time.time()) as a decimal string
Timestamps == {<<"1">>}

\* chunk lengths, in bytes (the code asks for chunks of at most 1 MiB)
ChunkLens == {1, 2}

\* declared content-length values; 0: the header is absent
ContentLengths == {0, 2}

ChunkSeqs == UNION {[1..n -> ChunkLens] : n \in 0..MaxChunks}

\* What one GET can meet:
\*   ok           2xx, the whole body arrives
\*   payload      2xx, the body breaks off after chunks (ClientPayloadError)
\*   status       a non-2xx status (raise_for_status: ClientResponseError)
\*   conn_get     the connection fails (ClientConnectionError)
\*   timeout_get  the connect or read timeout fires (asyncio.TimeoutError)
\*   oserror      2xx, but open(filepath, 'wb') fails (OSError)
\*   invalid_url  the url is not an http(s) URL (InvalidURL)
HttpResponses ==
    [kind : {"ok", "payload"}, clen : ContentLengths, chunks : ChunkSeqs]
    \cup [kind : {"status", "conn_get", "timeout_get", "oserror"}, clen : {0}, chunks : {<<>>}]

\* the responses the orchestrator's requests meet
FewResponses ==
    {[kind |-> "ok", clen |-> 2, chunks |-> <<2>>],
     [kind |-> "payload", clen |-> 2, chunks |-> <<1>>],
     [kind |-> "oserror", clen |-> 0, chunks |-> <<>>]}

InvalidUrlResponse == [kind |-> "invalid_url", clen |-> 0, chunks |-> <<>>]

IsHttpUrl(u) ==
    \/ StartsWith(u, <<"h", "t", "t", "p", ":", "/", "/">>)
    \/ StartsWith(u, <<"h", "t", "t", "p", "s", ":", "/", "/">>)

\* the exception class an attempt ends with ("none": it does not raise)
RaisedClass(kind) ==
    CASE kind = "payload" -> "ClientPayloadError"
      [] kind = "status" -> "ClientResponseError"
      [] kind = "conn_get" -> "ClientConnectionError"
      [] kind = "timeout_get" -> "TimeoutError"
      [] kind = "oserror" -> "OSError"
      [] kind = "invalid_url" -> "InvalidURL"
      [] OTHER -> "none"

\* aiohttp.ClientError and its subclasses
ClientErrorClasses == {"ClientError", "ClientResponseError", "ClientConnectionError",
                       "ClientPayloadError", "InvalidURL"}

(***************************************************************************)
(* DirectDownloader                                                        *)
(***************************************************************************)
max_retries == 3

ExhaustedLate(rc) == rc > max_retries

\* if retry_count >= max_retries
Exhausted(rc) == rc >= max_retries

\* except (aiohttp.ClientError, asyncio.TimeoutError)
Caught(cls) == cls \in ClientErrorClasses \cup {"TimeoutError"}

BackoffFlat(rc) == 2

\* await asyncio.sleep(2 * retry_count)
Backoff(rc) == 2 * rc

OpenAB(content) == content

\* open(filepath, 'wb'): the content of the file right after opening
OpenWB(content) == <<>>

\* if progress_callback and total_size
ShouldCallback(cb, total) == cb /\ total # 0

\* filename resolution, up to the sanitized name
ResolveFilename(u, f, ts) ==
    LET derived == SplitFirst(SplitLast(u, "/"), "?")
        synth == <<"d", "o", "w", "n", "l", "o", "a", "d", "_">> \o ts
        chosen == IF f # <<>> THEN f ELSE IF derived # <<>> THEN derived ELSE synth
    IN  sanitize_filename(chosen, DefaultMaxLength)

NoSessionOrAny(s) == TRUE

\* if self._session is None or self._session.closed
NoSessionOrClosed(s) == s = NoneV \/ s = "closed"

\* DirectDownloader._get_session: the state of the session it returns
GetSession(s) == IF NoSessionOrClosed(s) THEN "open" ELSE s

\* DirectDownloader._get_session: the sessions created so far, after it
GetSessions(s, ss) == IF NoSessionOrClosed(s) THEN Append(ss, "open") ELSE ss

\* DirectDownloader.close: the state of _session after it
CloseSession(s) == IF s = "open" THEN "closed" ELSE s

\* DirectDownloader.close: the sessions created so far, after it
CloseSessions(s, ss) == IF s = "open" THEN [ss EXCEPT ![Len(ss)] = "closed"] ELSE ss

\* the number of _get_session and close calls made in a row on one instance
MaxSessionCalls == 6

\* the locals of DirectDownloader.download when no call of it is running
DirectReset ==
    /\ dargs' = [url |-> <<>>, filename |-> <<>>, cb |-> FALSE]
    /\ filepath' = <<>>
    /\ retry_count' = 0
    /\ total_size' = 0
    /\ downloaded' = 0
    /\ resp' = NoResp
    /\ pos' = 0
    /\ served' = <<>>
    /\ sleeps' = <<>>
    /\ cbCount' = 0
    /\ writes' = 0
    /\ lastCb' = NoCb
    /\ lastErr' = NoErr
    /\ UNCHANGED <<session, sessions, sessions, disk>>

\* entry of DirectDownloader.download(u, f, progress_callback) up to the loop
DirectEnter(u, f, c) ==
    /\ \E ts \in Timestamps : filepath' = <<DownloadDir, ResolveFilename(u, f, ts)>>
    /\ dargs' = [url |-> u, filename |-> f, cb |-> c]
    /\ session' = GetSession(session)
    /\ sessions' = GetSessions(session, sessions)
    /\ retry_count' = 0
    /\ total_size' = 0
    /\ downloaded' = 0
    /\ resp' = NoResp
    /\ pos' = 0
    /\ served' = <<>>
    /\ sleeps' = <<>>
    /\ cbCount' = 0
    /\ writes' = 0
    /\ lastCb' = NoCb
    /\ lastErr' = NoErr
    /\ pc' = "d_get"
    /\ UNCHANGED disk

\* the except clause (and what happens to an exception it does not catch)
DirectRaise(e) ==
    IF Caught(e.cls)
    THEN /\ retry_count' = retry_count + 1
         /\ lastErr' = e
         /\ IF Exhausted(retry_count + 1)
            THEN /\ result' = Raised("Exception", "Download failed after retries", e, <<>>)
                 /\ pc' = "done"
                 /\ UNCHANGED sleeps
            ELSE /\ sleeps' = Append(sleeps, Backoff(retry_count + 1))
                 /\ pc' = "d_sleep"
                 /\ UNCHANGED result
    ELSE /\ result' = Raised(e.cls, "propagated", e, <<>>)
         /\ pc' = "done"
         /\ UNCHANGED <<retry_count, lastErr, sleeps>>

\* one GET: session.get, raise_for_status, the headers, open(filepath, 'wb')
DirectGet(Rs) ==
    /\ pc = "d_get"
    /\ retry_count < max_retries
    /\ \E r \in (IF IsHttpUrl(dargs.url) THEN Rs ELSE {InvalidUrlResponse}) :
        /\ served' = Append(served, r.kind)
        /\ resp' = r
        /\ pos' = 0
        /\ IF r.kind \in {"ok", "payload"}
           THEN /\ total_size' = r.clen
                /\ downloaded' = 0
                /\ disk' = (filepath :> OpenWB(IF filepath \in DOMAIN disk
                                               THEN disk[filepath] ELSE <<>>)) @@ disk
                /\ pc' = "d_stream"
                /\ UNCHANGED <<result, retry_count, lastErr, sleeps>>
           ELSE /\ DirectRaise(Err(RaisedClass(r.kind), Len(served) + 1))
                /\ IF r.kind = "oserror"
                   THEN total_size' = r.clen /\ downloaded' = 0
                   ELSE UNCHANGED <<total_size, downloaded>>
                /\ UNCHANGED disk
    /\ UNCHANGED <<calls, reported, session, sessions, dargs, filepath, cbCount, writes, lastCb, ovars>>
    /\ UNCHANGED evars

\* one iteration of the chunk loop: write, count, report
DirectChunk ==
    /\ pc = "d_stream"
    /\ pos < Len(resp.chunks)
    /\ LET n == resp.chunks[pos + 1]
           d == downloaded + n
       IN  /\ disk' = [disk EXCEPT ![filepath] =
                          Append(@, [at |-> Len(served), len |-> n])]
           /\ writes' = writes + 1
           /\ downloaded' = d
           /\ IF ShouldCallback(dargs.cb, total_size)
              THEN /\ cbCount' = cbCount + 1
                   /\ lastCb' = [downloaded |-> d, total |-> total_size,
                                 pct_num |-> d * 100, pct_den |-> total_size, speed |-> 0]
                   /\ reported' = [by |-> "direct", attempt |-> Len(served), bytes |-> d]
              ELSE UNCHANGED <<cbCount, lastCb, reported>>
    /\ pos' = pos + 1
    /\ UNCHANGED <<pc, result, calls, session, sessions, dargs, filepath, retry_count,
                   total_size, resp, served, sleeps, lastErr, ovars>>
    /\ UNCHANGED evars

\* the body ends: return str(filepath), or the stream raises
DirectEnd ==
    /\ pc = "d_stream"
    /\ pos = Len(resp.chunks)
    /\ IF resp.kind = "ok"
       THEN /\ result' = Returned(filepath)
            /\ pc' = "done"
            /\ UNCHANGED <<retry_count, lastErr, sleeps>>
       ELSE DirectRaise(Err(RaisedClass(resp.kind), Len(served)))
    /\ UNCHANGED <<calls, reported, session, sessions, dargs, filepath, total_size, downloaded,
                   resp, pos, served, disk, cbCount, writes, lastCb, ovars>>
    /\ UNCHANGED evars

\* the backoff sleep is over: next iteration of the while loop
DirectWake ==
    /\ pc = "d_sleep"
    /\ pc' = "d_get"
    /\ UNCHANGED <<result, calls, reported, dvars, ovars>>
    /\ UNCHANGED evars

\* a caller awaits DirectDownloader.download(u, f, progress_callback)
DirectCall ==
    /\ pc = "idle"
    /\ calls' = calls + 1
    /\ result' = NoResult
    /\ reported' = NoReport
    /\ \E a \in DirectArgs, c \in BOOLEAN : DirectEnter(a[1], a[2], c)
    /\ UNCHANGED ovars
    /\ UNCHANGED evars

(***************************************************************************)
(* Sources and the daemon as the Daemon Client sees it                     *)
(***************************************************************************)
S_magnet == <<"m", "a", "g", "n", "e", "t", ":", "?", "x">>

S_torrent == <<"a", ".", "t", "o", "r", "r", "e", "n", "t">>

S_local == <<"/", "t", "/", "f">>

\* a magnet link that ends in .torrent and is also the name of a local file
S_magnet_file == <<"m", "a", "g", "n", "e", "t", ":", ".", "t", "o", "r", "r", "e", "n", "t">>

Sources == {S_magnet, S_torrent, S_local, U_file}

\* os.path.exists: the local paths that exist
ExistingPaths == {S_local, S_magnet_file}

Requests ==
    [source : Sources, filename : {<<>>, F_given}, cb : BOOLEAN, use_aria2 : BOOLEAN]
    \cup [source : {S_magnet_file}, filename : {<<>>}, cb : {TRUE}, use_aria2 : BOOLEAN]

NoReq == [source |-> <<>>, filename |-> <<>>, cb |-> FALSE, use_aria2 |-> FALSE]

E_msg == <<"<", "e", ">">>

\* what a refresh of a Download object can show
Snapshots ==
    {[status |-> "active", total_length |-> 0, completed_length |-> 0,
      download_speed |-> 0, error_message |-> <<>>],
     [status |-> "active", total_length |-> 2, completed_length |-> 1,
      download_speed |-> 1, error_message |-> <<>>],
     [status |-> "complete", total_length |-> 2, completed_length |-> 2,
      download_speed |-> 0, error_message |-> <<>>],
     [status |-> "error", total_length |-> 2, completed_length |-> 1,
      download_speed |-> 0, error_message |-> E_msg]}

\* the state add_* returns the new Download object with
InitialSnapshots ==
    {s \in Snapshots : s.error_message = <<>> /\ s.completed_length # 1}

\* the refreshes a poll can see: the daemon does not lose bytes, and it ends
\* a job within MaxPolls refreshes
PollSnapshots(j, n) ==
    {s \in Snapshots : /\ s.completed_length >= j.completed_length
                       /\ (n + 1 >= MaxPolls => s.status \in {"complete", "error"})}

P1 == <<DownloadDir, <<"a">>, <<"x">> >>

P2 == <<DownloadDir, <<"b">>, <<"y">> >>

\* download.files as paths, and download.name
FileLists == {<<>>, <<P1>>, <<P1, P2>>}

JobName == <<"n">>

NoJob ==
    [status |-> "none", total_length |-> 0, completed_length |-> 0,
     download_speed |-> 0, error_message |-> <<>>, files |-> <<>>,
     followed_by |-> FALSE, successor |-> "none"]

\* what the refresh of line 276 can show of the job that follows a finished
\* one
SuccessorStatuses == {"active", "complete", "error"}

\* a Download object showing snapshot s; files are those of the job the
\* monitor ends with, successor is the status of that job when it is the
\* one that follows the submitted job
JobOf(s) ==
    [status |-> s.status, total_length |-> s.total_length,
     completed_length |-> s.completed_length, download_speed |-> s.download_speed,
     error_message |-> s.error_message, files |-> <<>>, followed_by |-> FALSE,
     successor |-> "none"]

NoConn ==
    [retry_count |-> 0, max_retries |-> 0, initial_wait |-> 0,
     last_error |-> NoErr, caller |-> "none"]

(***************************************************************************)
(* DownloadManager.download: classification and dispatch                   *)
(***************************************************************************)
\* source.startswith('magnet:')
is_magnet(src) == StartsWith(src, <<"m", "a", "g", "n", "e", "t", ":">>)

DotTorrent == <<".", "t", "o", "r", "r", "e", "n", "t">>

\* source.endswith('.torrent') or (os.path.exists(source) and source.endswith('.torrent'))
is_torrent(src) ==
    EndsWith(src, DotTorrent) \/ (src \in ExistingPaths /\ EndsWith(src, DotTorrent))

\* the add_* operation download_uri chooses for a uri
UriOp(uri) ==
    IF StartsWith(uri, <<"m", "a", "g", "n", "e", "t", ":">>) THEN "add_magnet"
    ELSE IF EndsWith(uri, DotTorrent) \/ uri \in ExistingPaths THEN "add_torrent"
    ELSE "add_uris"

\* the add_* operation the method m submits for the source src
SubmitOp(m, src) ==
    CASE m = "download_magnet" -> "add_magnet"
      [] m = "download_torrent" -> "add_torrent"
      [] OTHER -> UriOp(src)

MemoOnlyTrue(a) == a = "True"

\* if self._aria2_available is not None
MemoKnown(a) == a # NoneV

ChecksAlways(r) == TRUE

\* the call evaluates self._is_aria2_available(): for a magnet or torrent
\* (line 348), and for another source when use_aria2 holds (line 361)
ChecksAvailability(r) == is_magnet(r.source) \/ is_torrent(r.source) \/ r.use_aria2

DirectArgsNoFilename(r) == [url |-> r.source, filename |-> <<>>, cb |-> r.cb]

\* self.direct_downloader.download(source, filename, progress_callback)
DirectArgsOf(r) == [url |-> r.source, filename |-> r.filename, cb |-> r.cb]

\* re.sub(pattern, '_', filename) with a filename that is no string
SanitizeTypeError == Raised("TypeError", "expected string or bytes-like object", NoErr, <<>>)

\* the call goes on with the Direct Fetcher (line 373), whose
\* sanitize_filename call (line 57) raises for a filename that is no string,
\* before a session is asked for
StartDirect(r) ==
    /\ directInvoked' = TRUE
    /\ IF IsStr(DirectArgsOf(r).filename)
       THEN /\ result' = NoResult
            /\ DirectEnter(DirectArgsOf(r).url, DirectArgsOf(r).filename,
                           DirectArgsOf(r).cb)
       ELSE /\ result' = SanitizeTypeError
            /\ pc' = "done"
            /\ DirectReset

\* lines 347-373 of a fresh call, once the availability answer avail is
\* there (avail is not looked at when the call does not evaluate it)
Dispatch(r, avail) ==
    IF is_magnet(r.source) \/ is_torrent(r.source)
    THEN IF ~avail
         THEN /\ result' = Raised("ConnectionError",
                                  "Torrent/Magnet downloads require aria2", NoErr, <<>>)
              /\ pc' = "done"
              /\ via' = "none"
              /\ directInvoked' = FALSE
              /\ DirectReset
         ELSE /\ via' = IF is_magnet(r.source) THEN "download_magnet"
                        ELSE "download_torrent"
              /\ pc' = "submit"
              /\ result' = NoResult
              /\ directInvoked' = FALSE
              /\ DirectReset
    ELSE IF r.use_aria2 /\ avail
         THEN /\ via' = "download_uri"
              /\ pc' = "submit"
              /\ result' = NoResult
              /\ directInvoked' = FALSE
              /\ DirectReset
         ELSE /\ via' = "none"
              /\ StartDirect(r)

\* the awaited Aria2Downloader method raised e: download() falls back for
\* download_uri (lines 367-373) and lets e through otherwise (356, 358)
DaemonFailed(e) ==
    /\ UNCHANGED via
    /\ IF via = "download_uri"
       THEN StartDirect(req)
       ELSE /\ result' = e
            /\ pc' = "done"
            /\ UNCHANGED <<directInvoked, dvars>>

LeavingNone(m, e) == ReturnedNone

\* an exception e as it leaves the method m: download_uri wraps what its try
\* block raises (lines 222-224)
Leaving(m, e) ==
    IF m = "download_uri"
    THEN Raised("Exception", "Failed to start aria2 download", NoErr, e.text)
    ELSE e

\* the exception of an RPC call to an unreachable daemon
RpcError == Raised("RPCError", "daemon unreachable", NoErr, <<>>)

KeepMessage(m) == m

\* str(error_message).replace("<", " ").replace(">", " ")
CleanMessage(m) == [i \in 1..Len(m) |-> IF m[i] \in {"<", ">"} THEN " " ELSE m[i]]

\* raise Exception(f"Download error: {error_msg}")
JobError(m) == Raised("Exception", "Download error", NoErr, CleanMessage(m))

(***************************************************************************)
(* Aria2Downloader.connect                                                 *)
(***************************************************************************)
ConnectBackoffLinear(initial_wait, rc) == initial_wait * rc

\* wait_time = initial_wait * (2 ** (retry_count - 1))
ConnectBackoff(initial_wait, rc) == initial_wait * 2 ^ (rc - 1)

\* host:port of the daemon's RPC endpoint (aria2_host, aria2_port)
Aria2Address == <<"h", ":", "6">>

\* the ConnectionError of lines 162-168: it names the endpoint and reports
\* str(last_error)
ConnectError(e) ==
    Raised("ConnectionError", "Cannot connect to aria2 RPC", e, Aria2Address)

ConnectedNever(c, a) == FALSE

\* if self._connected and self.aria2
AlreadyConnected(c, a) == c /\ a # 0

\* connect(max_retries=3, initial_wait=1) is called by caller and does not
\* return at once
ConnectEnter(caller) ==
    /\ conn' = [retry_count |-> 0, max_retries |-> 3, initial_wait |-> 1,
                last_error |-> NoErr, caller |-> caller]
    /\ pc' = "c_try"

\* connect() ends: it returned True (ok) or raised ConnectionError about e
ConnectReturn(ok, e) ==
    IF conn.caller = "probe"
    THEN /\ aria2_available' = IF ok THEN "True" ELSE "False"
         /\ Dispatch(req, ok)
    ELSE IF conn.caller = "connect"
    THEN /\ result' = IF ok THEN ReturnedTrue ELSE ConnectError(e)
         /\ pc' = "done"
         /\ UNCHANGED <<aria2_available, via, directInvoked, dvars>>
    ELSE /\ UNCHANGED aria2_available
         /\ IF ok
            THEN /\ pc' = "submit"
                 /\ UNCHANGED <<result, via, directInvoked, dvars>>
            ELSE DaemonFailed(ConnectError(e))

\* one iteration of the retry loop: a new client, then the handshake
ConnectTry ==
    /\ pc = "c_try"
    /\ conn.retry_count < conn.max_retries
    /\ aria2' = aria2 + 1
    /\ IF daemonUp
       THEN /\ connected' = TRUE
            /\ UNCHANGED <<conn, csleeps>>
            /\ ConnectReturn(TRUE, NoErr)
       ELSE LET rc == conn.retry_count + 1
                e == Err("RPCError", rc)
            IN  /\ UNCHANGED connected
                /\ conn' = [conn EXCEPT !.retry_count = rc, !.last_error = e]
                /\ IF rc < conn.max_retries
                   THEN /\ csleeps' = Append(csleeps,
                                             ConnectBackoff(conn.initial_wait, rc))
                        /\ pc' = "c_wait"
                        /\ UNCHANGED <<aria2_available, result, via, directInvoked, dvars>>
                   ELSE /\ UNCHANGED csleeps
                        /\ ConnectReturn(FALSE, e)
    /\ UNCHANGED <<calls, reported, req, probes, job, submitted, polls, daemonUp,
                   daemonSeenUp>>
    /\ UNCHANGED evars

\* time.sleep(wait_time) is over
ConnectWake ==
    /\ pc = "c_wait"
    /\ pc' = "c_try"
    /\ UNCHANGED <<result, calls, reported, dvars, ovars>>
    /\ UNCHANGED evars

\* the max_retries and initial_wait arguments a caller of connect() passes
ConnectRetries == 0..4

InitialWaits == {1, 3}

\* a caller calls Aria2Downloader.connect(mr, iw) itself: the early return of
\* line 123, the loop that is not entered (the call falls off the end of the
\* function), or the first iteration
ConnectCall ==
    /\ pc \in {"idle", "done"}
    /\ calls < MaxCalls
    /\ calls' = calls + 1
    /\ \E mr \in ConnectRetries, iw \in InitialWaits :
        /\ conn' = [retry_count |-> 0, max_retries |-> mr, initial_wait |-> iw,
                    last_error |-> NoErr, caller |-> "connect"]
        /\ IF AlreadyConnected(connected, aria2)
           THEN result' = ReturnedTrue /\ pc' = "done"
           ELSE IF 0 < mr
                THEN result' = NoResult /\ pc' = "c_try"
                ELSE result' = ReturnedNone /\ pc' = "done"
    /\ reported' = NoReport
    /\ csleeps' = <<>>
    /\ daemonSeenUp' = daemonUp
    /\ UNCHANGED <<dvars, req, aria2_available, via, directInvoked, probes, aria2,
                   connected, job, submitted, polls, daemonUp>>
    /\ UNCHANGED evars

(***************************************************************************)
(* Aria2Downloader.download_uri / download_magnet / download_torrent       *)
(***************************************************************************)
\* the method connects when it has no client, then submits the job
Submit ==
    /\ pc = "submit"
    /\ IF aria2 = 0
       THEN /\ ConnectEnter(via)
            /\ UNCHANGED <<result, via, directInvoked, dvars, job, submitted>>
       ELSE /\ UNCHANGED conn
            /\ IF via = "download_uri" /\ req.filename # <<>> /\ ~IsStr(req.filename)
               THEN \* lines 198-201, outside the try block
                    /\ UNCHANGED <<job, submitted>>
                    /\ DaemonFailed(SanitizeTypeError)
               ELSE IF daemonUp
               THEN /\ \E s \in InitialSnapshots : job' = JobOf(s)
                    /\ submitted' = Append(submitted, SubmitOp(via, req.source))
                    /\ pc' = "monitor"
                    /\ UNCHANGED <<result, via, directInvoked, dvars>>
               ELSE /\ UNCHANGED <<job, submitted>>
                    /\ DaemonFailed(Leaving(via, RpcError))
    /\ UNCHANGED <<calls, reported, req, aria2_available, probes, aria2, connected,
                   csleeps, polls, daemonUp, daemonSeenUp>>
    /\ UNCHANGED evars

\* a caller awaits download_magnet(source, cb) or download_torrent(source,
\* cb) on the Aria2Downloader itself (download_uri begins with the same two
\* lines, 191-192)
SubmitCall ==
    /\ pc \in {"idle", "done"}
    /\ calls < MaxCalls
    /\ calls' = calls + 1
    /\ \E m \in {"download_magnet", "download_torrent"}, c \in BOOLEAN :
        /\ via' = m
        /\ req' = [NoReq EXCEPT !.cb = c,
                                !.source = IF m = "download_magnet" THEN S_magnet
                                           ELSE S_torrent]
    /\ pc' = "submit"
    /\ result' = NoResult
    /\ reported' = NoReport
    /\ csleeps' = <<>>
    /\ job' = NoJob
    /\ submitted' = <<>>
    /\ polls' = 0
    /\ daemonSeenUp' = daemonUp
    /\ UNCHANGED <<dvars, aria2_available, directInvoked, probes, aria2, connected,
                   conn, daemonUp>>
    /\ UNCHANGED evars

(***************************************************************************)
(* Aria2Downloader._monitor_download                                       *)
(***************************************************************************)
\* await asyncio.sleep(2)
PollInterval == 2

\* Path(p).parent
Parent(p) == SubSeq(p, 1, Len(p) - 1)

ResultPathFirst(files, name) ==
    IF files # <<>> THEN files[1] ELSE <<DownloadDir, name>>

\* lines 279-290: the path for the files of the finished download
ResultPath(files, name) ==
    IF files # <<>>
    THEN IF Len(files) > 1 THEN Parent(files[1]) ELSE files[1]
    ELSE <<DownloadDir, name>>

NotStarted(j) == j.status # "complete" /\ j.completed_length = 0

\* not download.is_complete
NotComplete(j) == j.status # "complete"

\* a caller awaits _monitor_download(download, progress_callback) for a
\* Download object that add_* returned
MonitorCall ==
    /\ pc \in {"idle", "done"}
    /\ calls < MaxCalls
    /\ calls' = calls + 1
    /\ \E s \in InitialSnapshots, c \in BOOLEAN :
        /\ job' = JobOf(s)
        /\ req' = [NoReq EXCEPT !.cb = c]
    /\ via' = "_monitor_download"
    /\ pc' = "monitor"
    /\ result' = NoResult
    /\ reported' = NoReport
    /\ polls' = 0
    /\ sleeps' = <<>>
    /\ cbCount' = 0
    /\ lastCb' = NoCb
    /\ daemonSeenUp' = daemonUp
    /\ UNCHANGED <<session, sessions, dargs, filepath, retry_count, total_size, downloaded,
                   resp, pos, served, disk, writes, lastErr, aria2_available,
                   directInvoked, probes, aria2, connected, conn, csleeps, submitted,
                   daemonUp>>
    /\ UNCHANGED evars

\* while not download.is_complete: await asyncio.sleep(2)
MonitorSleep ==
    /\ pc = "monitor"
    /\ NotComplete(job)
    /\ sleeps' = Append(sleeps, PollInterval)
    /\ pc' = "m_poll"
    /\ UNCHANGED <<result, calls, reported, session, sessions, dargs, filepath, retry_count,
                   total_size, downloaded, resp, pos, served, disk, cbCount, writes,
                   lastCb, lastErr, ovars>>
    /\ UNCHANGED evars

\* download.update(), the error check and the progress callback
MonitorPoll ==
    /\ pc = "m_poll"
    /\ IF ~daemonUp
       THEN /\ UNCHANGED <<job, polls, reported>>
            /\ DaemonFailed(Leaving(via, RpcError))
       ELSE \E s \in PollSnapshots(job, polls) :
            /\ job' = JobOf(s)
            /\ polls' = polls + 1
            /\ IF s.error_message # <<>>
               THEN /\ UNCHANGED reported
                    /\ DaemonFailed(Leaving(via, JobError(s.error_message)))
               ELSE /\ pc' = "monitor"
                    /\ IF req.cb
                       THEN /\ cbCount' = cbCount + 1
                            /\ lastCb' = [downloaded |-> s.completed_length,
                                          total |-> s.total_length,
                                          pct_num |-> IF s.total_length > 0
                                                      THEN s.completed_length * 100 ELSE 0,
                                          pct_den |-> IF s.total_length > 0
                                                      THEN s.total_length ELSE 1,
                                          speed |-> s.download_speed]
                            /\ reported' = [by |-> "monitor", attempt |-> 0,
                                            bytes |-> s.completed_length]
                       ELSE UNCHANGED <<cbCount, lastCb, reported>>
                    /\ UNCHANGED <<result, via, directInvoked, session, sessions, dargs,
                                   filepath, retry_count, total_size, downloaded,
                                   resp, pos, served, disk, sleeps, writes, lastErr>>
    /\ UNCHANGED <<calls, req, aria2_available, probes, aria2, connected, conn,
                   csleeps, submitted, daemonUp, daemonSeenUp>>
    /\ UNCHANGED evars

\* what download.followed_by can hold for a job the method m submitted: the
\* daemon follows a magnet's metadata job by the torrent's job; download_uri
\* switches following off for what add_uris fetches (lines 203-205), and a
\* torrent file is the job itself
Successors(m, src) ==
    IF m = "_monitor_download" \/ SubmitOp(m, src) = "add_magnet"
    THEN SuccessorStatuses ELSE {}

\* the loop is over: refresh, follow the successor, map the files to a path
MonitorFinish ==
    /\ pc = "monitor"
    /\ ~NotComplete(job)
    /\ IF ~daemonUp
       THEN /\ UNCHANGED job
            /\ DaemonFailed(Leaving(via, RpcError))
       ELSE \E fs \in FileLists, st \in {"none"} \cup Successors(via, req.source) :
            /\ job' = [job EXCEPT !.files = fs, !.followed_by = (st # "none"),
                                  !.successor = st]
            /\ result' = Returned(ResultPath(fs, JobName))
            /\ pc' = "done"
            /\ UNCHANGED <<via, directInvoked, dvars>>
    /\ UNCHANGED <<calls, reported, req, aria2_available, probes, aria2, connected,
                   conn, csleeps, submitted, polls, daemonUp, daemonSeenUp>>
    /\ UNCHANGED evars

(***************************************************************************)
(* DownloadManager.download and the environment                            *)
(***************************************************************************)
\* a caller awaits download(source, filename, progress_callback, use_aria2)
Request ==
    /\ pc \in {"idle", "done"}
    /\ calls < MaxCalls
    /\ calls' = calls + 1
    /\ \E r \in Requests :
        /\ req' = r
        /\ IF ChecksAvailability(r) /\ ~MemoKnown(aria2_available)
           THEN \* _is_aria2_available calls connect()
                /\ probes' = probes + 1
                /\ IF AlreadyConnected(connected, aria2)
                   THEN /\ aria2_available' = "True"
                        /\ Dispatch(r, TRUE)
                        /\ UNCHANGED conn
                   ELSE /\ ConnectEnter("probe")
                        /\ result' = NoResult
                        /\ via' = "none"
                        /\ directInvoked' = FALSE
                        /\ DirectReset
                        /\ UNCHANGED aria2_available
           ELSE /\ Dispatch(r, aria2_available = "True")
                /\ UNCHANGED <<probes, aria2_available, conn>>
    /\ reported' = NoReport
    /\ csleeps' = <<>>
    /\ job' = NoJob
    /\ submitted' = <<>>
    /\ polls' = 0
    /\ daemonSeenUp' = daemonUp
    /\ UNCHANGED <<aria2, connected, daemonUp>>
    /\ UNCHANGED evars

(***************************************************************************)
(* Requests in flight together on one asyncio event loop.  A task runs on  *)
(* the loop's single thread from one suspension (an await that gives the   *)
(* thread back) to the next; a synchronous call that waits (time.sleep,    *)
(* an aria2p RPC call) keeps the thread while it waits.  Each request has  *)
(* its own DownloadManager; all write under the same download_dir.  The    *)
(* source is an HTTP URL, the filename a string, the responses are 200     *)
(* and the bodies arrive whole.                                            *)
(***************************************************************************)
LoopRest == <<pc, result, calls, reported, dvars, ovars, closes, auth, s_filename,
              s_max_length, s_result>>

\* the task may run: the thread is free, or the task itself is on it
MayRun(t) == holder \in {0, t}

\* positions in which a task waits for the daemon: a connection attempt, a
\* back-off wait, an RPC call
DaemonWaitPcs == {"c_try", "c_wait", "rpc_add", "rpc_update", "rpc_final"}

\* f.write(chunk) through a handle at its own offset: the file grows, with
\* a hole when the offset is beyond its end
WriteAt(content, offset, tag) ==
    [i \in 1..Max(Len(content), offset + 1) |->
        IF i = offset + 1 THEN tag
        ELSE IF i <= Len(content) THEN content[i] ELSE 0]

\* the request goes on with DirectDownloader.download (line 373) up to the
\* GET of line 69, which suspends
TaskToDirect(t) ==
    /\ task' = [task EXCEPT ![t].pc = "d_get"]
    /\ holder' = 0

\* DownloadManager.download(url, filename, use_aria2=...) is called: with
\* use_aria2 the probe's connect() starts its first attempt (line 144),
\* which is a synchronous call
TaskStart(t) ==
    /\ task[t].pc = "new"
    /\ MayRun(t)
    /\ \E a \in BOOLEAN, f \in LoopNames :
          /\ task' = [task EXCEPT ![t] =
                 [NoTask EXCEPT !.use_aria2 = a,
                                !.filename = sanitize_filename(f, DefaultMaxLength),
                                !.pc = IF a THEN "c_try" ELSE "d_get"]]
          /\ holder' = IF a THEN t ELSE 0
    /\ UNCHANGED <<fdisk, LoopRest>>

\* get_version() answers or fails (lines 144-167); on failure the back-off
\* is time.sleep (line 159), after the last attempt the probe says False
\* and the request goes to the Direct Fetcher
TaskConnectTry(t) ==
    /\ task[t].pc = "c_try"
    /\ MayRun(t)
    /\ IF daemonUp
       THEN /\ task' = [task EXCEPT ![t].pc = "rpc_add"]
            /\ holder' = t
       ELSE IF task[t].attempt + 1 < 3
       THEN /\ task' = [task EXCEPT ![t].pc = "c_wait",
                                    ![t].attempt = task[t].attempt + 1]
            /\ holder' = t
       ELSE TaskToDirect(t)
    /\ UNCHANGED <<fdisk, LoopRest>>

\* time.sleep(wait_time) returns and the while loop goes round (line 132)
TaskConnectWake(t) ==
    /\ task[t].pc = "c_wait"
    /\ MayRun(t)
    /\ task' = [task EXCEPT ![t].pc = "c_try"]
    /\ holder' = t
    /\ UNCHANGED <<fdisk, LoopRest>>

\* add_uris answers (line 214) and _monitor_download starts: a job that is
\* complete goes to the update() of line 271, any other to the
\* asyncio.sleep of line 254; a failed call ends in the fallback
TaskAdd(t) ==
    /\ task[t].pc = "rpc_add"
    /\ MayRun(t)
    /\ IF daemonUp
       THEN \E complete \in BOOLEAN :
               /\ task' = [task EXCEPT ![t].pc = IF complete THEN "rpc_final"
                                                 ELSE "m_sleep"]
               /\ holder' = IF complete THEN t ELSE 0
       ELSE TaskToDirect(t)
    /\ UNCHANGED <<fdisk, LoopRest>>

\* asyncio.sleep(2) is over; download.update() is called (line 255)
TaskMonitorWake(t) ==
    /\ task[t].pc = "m_sleep"
    /\ MayRun(t)
    /\ task' = [task EXCEPT ![t].pc = "rpc_update"]
    /\ holder' = t
    /\ UNCHANGED <<fdisk, LoopRest>>

\* download.update() answers (lines 255-269): the job is complete, or is
\* not yet, or has an error message; an error and a failed call end in the
\* fallback
TaskUpdate(t) ==
    /\ task[t].pc = "rpc_update"
    /\ MayRun(t)
    /\ IF daemonUp
       THEN \E outcome \in {"complete", "active", "error"} :
               /\ outcome = "active" => task[t].polls + 1 < MaxPolls
               /\ IF outcome = "error"
                  THEN /\ task' = [task EXCEPT ![t].pc = "d_get",
                                               ![t].polls = task[t].polls + 1]
                       /\ holder' = 0
                  ELSE /\ task' = [task EXCEPT
                              ![t].pc = IF outcome = "complete" THEN "rpc_final"
                                        ELSE "m_sleep",
                              ![t].polls = task[t].polls + 1]
                       /\ holder' = IF outcome = "complete" THEN t ELSE 0
       ELSE TaskToDirect(t)
    /\ UNCHANGED <<fdisk, LoopRest>>

\* the update() of line 271 answers and the daemon's path is returned
\* (lines 278-289)
TaskFinal(t) ==
    /\ task[t].pc = "rpc_final"
    /\ MayRun(t)
    /\ IF daemonUp
       THEN /\ task' = [task EXCEPT ![t].pc = "done",
                                    ![t].result = <<"daemon", task[t].filename>>]
            /\ holder' = 0
       ELSE TaskToDirect(t)
    /\ UNCHANGED <<fdisk, LoopRest>>

\* the response arrives (lines 69-76) and open(filepath, 'wb') empties the
\* file (line 78); the first chunk is awaited
TaskGet(t) ==
    /\ task[t].pc = "d_get"
    /\ MayRun(t)
    /\ fdisk' = [fdisk EXCEPT ![task[t].filename] = <<>>]
    /\ task' = [task EXCEPT ![t].pc = "d_chunk", ![t].offset = 0,
                            ![t].downloaded = 0]
    /\ holder' = 0
    /\ UNCHANGED LoopRest

\* a chunk arrives and is written through the request's own handle
\* (lines 79-82)
TaskChunk(t) ==
    /\ task[t].pc = "d_chunk"
    /\ MayRun(t)
    /\ task[t].downloaded < MaxChunks
    /\ fdisk' = [fdisk EXCEPT ![task[t].filename] =
                    WriteAt(fdisk[task[t].filename], task[t].offset, t)]
    /\ task' = [task EXCEPT ![t].offset = task[t].offset + 1,
                            ![t].downloaded = task[t].downloaded + 1]
    /\ holder' = 0
    /\ UNCHANGED LoopRest

\* the body is over: the file is closed and str(filepath) returned
\* (lines 90-91)
TaskEnd(t) ==
    /\ task[t].pc = "d_chunk"
    /\ MayRun(t)
    /\ task[t].downloaded > 0
    /\ task' = [task EXCEPT ![t].pc = "done",
                            ![t].result = <<DownloadDir, task[t].filename>>]
    /\ holder' = 0
    /\ UNCHANGED <<fdisk, LoopRest>>

(***************************************************************************)
(* bot.process_download                                                    *)
(***************************************************************************)
\* download_manager.download(source, progress_callback), line 209: the second
\* positional parameter of download() is filename, so the callback is bound
\* to filename, and progress_callback and use_aria2 keep their defaults
BotRequest(source) ==
    [source |-> source, filename |-> FunctionObject, cb |-> FALSE, use_aria2 |-> TRUE]

\* process_download(update, source) up to the first suspension inside
\* download(): a new DownloadManager (lines 172-177), whose availability is
\* not known, so download() probes the daemon for every source (use_aria2
\* is True)
BotMessage ==
    /\ pc \in {"idle", "returned"}
    /\ calls < MaxCalls
    /\ calls' = calls + 1
    /\ \E src \in Sources \cup {S_magnet_file} : req' = BotRequest(src)
    /\ session' = NoneV
    /\ sessions' = <<>>
    /\ aria2_available' = NoneV
    /\ aria2' = 0
    /\ connected' = FALSE
    /\ closes' = 0
    /\ probes' = 1
    /\ ConnectEnter("probe")
    /\ result' = NoResult
    /\ via' = "none"
    /\ directInvoked' = FALSE
    /\ reported' = NoReport
    /\ csleeps' = <<>>
    /\ job' = NoJob
    /\ submitted' = <<>>
    /\ polls' = 0
    /\ daemonSeenUp' = daemonUp
    /\ dargs' = [url |-> <<>>, filename |-> <<>>, cb |-> FALSE]
    /\ filepath' = <<>>
    /\ retry_count' = 0
    /\ total_size' = 0
    /\ downloaded' = 0
    /\ resp' = NoResp
    /\ pos' = 0
    /\ served' = <<>>
    /\ sleeps' = <<>>
    /\ cbCount' = 0
    /\ writes' = 0
    /\ lastCb' = NoCb
    /\ lastErr' = NoErr
    /\ UNCHANGED <<disk, daemonUp, task, holder, fdisk, auth, s_filename, s_max_length,
                   s_result>>

\* download() is over: the upload and the replies of lines 211-230, then
\* process_download returns; the manager goes out of scope as it is
BotReply ==
    /\ pc = "done"
    /\ pc' = "returned"
    /\ UNCHANGED <<result, calls, reported, dvars, ovars, evars>>

\* the daemon starts or stops answering (the Direct Fetcher does not look at
\* the daemon: a change during a fetch shows when the fetch has ended)
DaemonFlip ==
    /\ pc \notin {"d_get", "d_stream", "d_sleep"}
    /\ daemonUp' = ~daemonUp
    /\ daemonSeenUp' = (daemonSeenUp \/ ~daemonUp)
    /\ UNCHANGED <<pc, result, calls, reported, dvars, req, aria2_available, via,
                   directInvoked, probes, aria2, connected, conn, csleeps, job,
                   submitted, polls>>
    /\ UNCHANGED evars

(***************************************************************************)
(* Specifications                                                          *)
(***************************************************************************)
\* a fresh DownloadManager with its DirectDownloader and Aria2Downloader
InitCore ==
    /\ pc = "idle"
    /\ result = NoResult
    /\ calls = 0
    /\ reported = NoReport
    /\ session = NoneV
    /\ sessions = <<>>
    /\ dargs = [url |-> <<>>, filename |-> <<>>, cb |-> FALSE]
    /\ filepath = <<>>
    /\ retry_count = 0
    /\ total_size = 0
    /\ downloaded = 0
    /\ resp = NoResp
    /\ pos = 0
    /\ served = <<>>
    /\ sleeps = <<>>
    /\ cbCount = 0
    /\ writes = 0
    /\ lastCb = NoCb
    /\ lastErr = NoErr
    /\ req = NoReq
    /\ aria2_available = NoneV
    /\ via = "none"
    /\ directInvoked = FALSE
    /\ probes = 0
    /\ aria2 = 0
    /\ connected = FALSE
    /\ conn = NoConn
    /\ csleeps = <<>>
    /\ job = NoJob
    /\ submitted = <<>>
    /\ polls = 0
    /\ daemonSeenUp = FALSE
    /\ closes = 0
    /\ task = [t \in Tasks |-> NoTask]
    /\ holder = 0
    /\ fdisk = [n \in LoopNames |-> <<>>]

\* no sanitize_filename call is made
InitObjects ==
    /\ InitCore
    /\ auth = NoAuth
    /\ s_filename = <<>>
    /\ s_max_length = DefaultMaxLength
    /\ s_result = NotCalled

\* a file left in download_dir by an earlier run
OldContent == <<[at |-> 0, len |-> 1], [at |-> 0, len |-> 2]>>

\* download_dir before the call: empty, or holding an old file of some name
OldDisks ==
    {<<>>} \cup {(<<DownloadDir, ResolveFilename(a[1], a[2], ts)>> :> OldContent) :
                    a \in DirectArgs, ts \in Timestamps}

\* one DirectDownloader.download call on a fresh DirectDownloader
InitDirect ==
    /\ InitObjects
    /\ disk \in OldDisks
    /\ daemonUp = FALSE

NextDirect ==
    \/ DirectCall
    \/ DirectGet(HttpResponses)
    \/ DirectChunk
    \/ DirectEnd
    \/ DirectWake

SpecDirect == InitDirect /\ [][NextDirect]_vars

\* a caller calls sanitize_filename(filename, max_length)
Sanitize ==
    /\ s_result = NotCalled
    /\ s_result' = sanitize_filename(s_filename, s_max_length)
    /\ UNCHANGED <<pc, result, calls, reported, dvars, ovars, closes, task, holder,
                   fdisk, auth, s_filename, s_max_length>>

\* one sanitize_filename call with any filename and max_length
InitSanitize ==
    /\ InitCore
    /\ auth = NoAuth
    /\ disk = <<>>
    /\ daemonUp = FALSE
    /\ s_filename \in Names
    /\ s_max_length \in MaxLengths
    /\ s_result = NotCalled

NextSanitize == Sanitize

SpecSanitize == InitSanitize /\ [][NextSanitize]_vars

UnrestrictedNever(allowed) == FALSE

\* if not Config.AUTHORIZED_USERS
Unrestricted(allowed) == allowed = {}

\* the wrapper of authorized_only handles an update sent by user_id: the
\* handler runs (lines 60-61, 69) or the not-authorized reply is sent and
\* the wrapper returns (lines 63-67)
Wrapper ==
    /\ auth.updates < MaxUpdates
    /\ \E user_id \in Users :
          IF Unrestricted(auth.allowed)
          THEN auth' = [auth EXCEPT !.user = user_id, !.updates = @ + 1, !.ran = @ + 1]
          ELSE IF user_id \notin auth.allowed
          THEN auth' = [auth EXCEPT !.user = user_id, !.updates = @ + 1,
                                    !.denied = @ + 1]
          ELSE auth' = [auth EXCEPT !.user = user_id, !.updates = @ + 1, !.ran = @ + 1]
    /\ UNCHANGED <<pc, result, calls, reported, dvars, ovars, closes, task, holder,
                   fdisk, s_filename, s_max_length, s_result>>

\* updates handled one after the other, under any allow-list
InitAuth ==
    /\ InitCore
    /\ auth \in {[NoAuth EXCEPT !.allowed = a] : a \in SUBSET Users}
    /\ disk = <<>>
    /\ daemonUp = FALSE
    /\ s_filename = <<>>
    /\ s_max_length = DefaultMaxLength
    /\ s_result = NotCalled

NextAuth == Wrapper

SpecAuth == InitAuth /\ [][NextAuth]_vars

\* a caller awaits dd._get_session()
SessionGet ==
    /\ calls < MaxSessionCalls
    /\ calls' = calls + 1
    /\ pc' = "got"
    /\ session' = GetSession(session)
    /\ sessions' = GetSessions(session, sessions)
    /\ UNCHANGED <<result, reported, dargs, filepath, retry_count, total_size,
                   downloaded, resp, pos, served, disk, sleeps, cbCount, writes,
                   lastCb, lastErr, ovars, evars>>

\* a caller awaits dd.close()
SessionClose ==
    /\ calls < MaxSessionCalls
    /\ calls' = calls + 1
    /\ pc' = "closed"
    /\ closes' = closes + 1
    /\ session' = CloseSession(session)
    /\ sessions' = CloseSessions(session, sessions)
    /\ UNCHANGED <<result, reported, dargs, filepath, retry_count, total_size,
                   downloaded, resp, pos, served, disk, sleeps, cbCount, writes,
                   lastCb, lastErr, ovars, task, holder, fdisk, auth, s_filename,
                   s_max_length, s_result>>

\* _get_session and close calls in any order on one DirectDownloader
NextSession ==
    \/ SessionGet
    \/ SessionClose

SpecSession == InitDirect /\ [][NextSession]_vars

\* DirectDownloader.download(url, filename) up to filepath = download_dir /
\* filename (lines 50-59)
ResolvePath ==
    /\ filepath = <<>>
    /\ \E u \in {U_file, U_dir, U_dots}, ts \in Timestamps :
          /\ dargs' = [url |-> u, filename |-> s_filename, cb |-> FALSE]
          /\ filepath' = <<DownloadDir, ResolveFilename(u, s_filename, ts)>>
    /\ UNCHANGED <<pc, result, calls, reported, session, sessions, retry_count, total_size,
                   downloaded, resp, pos, served, disk, sleeps, cbCount, writes,
                   lastCb, lastErr, ovars, evars>>

\* one DirectDownloader.download call with any filename
InitResolve ==
    /\ InitCore
    /\ auth = NoAuth
    /\ disk = <<>>
    /\ daemonUp = FALSE
    /\ s_filename \in Names \cup HostileNames
    /\ s_max_length = DefaultMaxLength
    /\ s_result = NotCalled

NextResolve == ResolvePath

SpecResolve == InitResolve /\ [][NextResolve]_vars

\* a sequence of DownloadManager.download calls on one DownloadManager
Init ==
    /\ InitObjects
    /\ disk = <<>>
    /\ daemonUp \in BOOLEAN

Next ==
    \/ Request
    \/ ConnectTry
    \/ ConnectWake
    \/ Submit
    \/ MonitorSleep
    \/ MonitorPoll
    \/ MonitorFinish
    \/ DirectGet(FewResponses)
    \/ DirectChunk
    \/ DirectEnd
    \/ DirectWake
    \/ DaemonFlip

Spec == Init /\ [][Next]_vars

\* two requests in flight on one event loop, and a daemon that comes and goes
NextLoop ==
    \/ \E t \in Tasks : TaskStart(t)
    \/ \E t \in Tasks : TaskConnectTry(t)
    \/ \E t \in Tasks : TaskConnectWake(t)
    \/ \E t \in Tasks : TaskAdd(t)
    \/ \E t \in Tasks : TaskMonitorWake(t)
    \/ \E t \in Tasks : TaskUpdate(t)
    \/ \E t \in Tasks : TaskFinal(t)
    \/ \E t \in Tasks : TaskGet(t)
    \/ \E t \in Tasks : TaskChunk(t)
    \/ \E t \in Tasks : TaskEnd(t)
    \/ DaemonFlip

SpecLoop == Init /\ [][NextLoop]_vars

\* chat messages handled one after the other by process_download; the loop
\* of the Direct Fetcher is not among the steps: the filename it is given
\* is no string and it raises before its first GET
NextBot ==
    \/ BotMessage
    \/ ConnectTry
    \/ ConnectWake
    \/ Submit
    \/ MonitorSleep
    \/ MonitorPoll
    \/ MonitorFinish
    \/ BotReply
    \/ DaemonFlip

SpecBot == Init /\ [][NextBot]_vars

\* a sequence of connect() calls on one Aria2Downloader
NextConnect ==
    \/ ConnectCall
    \/ ConnectTry
    \/ ConnectWake
    \/ DaemonFlip

SpecConnect == Init /\ [][NextConnect]_vars

\* connect, download_magnet and download_torrent calls in any order on one
\* Aria2Downloader
NextAria2 ==
    \/ ConnectCall
    \/ SubmitCall
    \/ ConnectTry
    \/ ConnectWake
    \/ Submit
    \/ MonitorSleep
    \/ MonitorPoll
    \/ MonitorFinish
    \/ DaemonFlip

SpecAria2 == Init /\ [][NextAria2]_vars

\* _monitor_download calls; the event loop goes on running a task that can
\* take a step
NextMonitor ==
    \/ MonitorCall
    \/ MonitorSleep
    \/ MonitorPoll
    \/ MonitorFinish
    \/ DaemonFlip

SpecMonitor ==
    /\ Init
    /\ [][NextMonitor]_vars
    /\ WF_vars(MonitorSleep)
    /\ WF_vars(MonitorPoll)
    /\ WF_vars(MonitorFinish)

(***************************************************************************)
(* Claims about DownloadManager.download (checked under Spec)              *)
(***************************************************************************)
\* the class of a source string: magnet first, then torrent reference (the
\* .torrent suffix or an existing local path), else direct URL
SourceClass(src) ==
    IF StartsWith(src, <<"m", "a", "g", "n", "e", "t", ":">>) THEN "Magnet"
    ELSE IF EndsWith(src, DotTorrent) \/ src \in ExistingPaths THEN "TorrentReference"
    ELSE "DirectUrl"

DirectPcs == {"d_get", "d_stream", "d_sleep"}

DaemonPcs == {"c_try", "c_wait", "submit", "monitor", "m_poll"}

DaemonRequiredMsg == "Torrent/Magnet downloads require aria2"

RECURSIVE DirectLoop(_, _, _)
\* the outcome of the retry loop of DirectDownloader.download writing to
\* path, when its GETs meet the responses kinds, from retry_count rc on
\* (NoResult: the loop is still running)
DirectLoop(path, kinds, rc) ==
    IF kinds = <<>> THEN NoResult
    ELSE IF Head(kinds) = "ok" THEN Returned(path)
    ELSE IF Caught(RaisedClass(Head(kinds)))
         THEN IF rc + 1 >= max_retries
              THEN Raised("Exception", "Download failed after retries",
                          Err(RaisedClass(Head(kinds)), rc + 1), <<>>)
              ELSE DirectLoop(path, Tail(kinds), rc + 1)
    ELSE Raised(RaisedClass(Head(kinds)), "propagated",
                Err(RaisedClass(Head(kinds)), rc + 1), <<>>)

\* what DirectDownloader.download(u, f, ...) alone produces against kinds
\* at time ts
DirectAlone(u, f, ts, kinds) ==
    DirectLoop(<<DownloadDir, ResolveFilename(u, f, ts)>>, kinds, 0)

\* C1: a call for a magnet or a torrent reference never invokes the Direct
\* Fetcher; when the daemon was down all through the call it has failed with
\* the daemon-required error; when its job failed the job's error is its
\* outcome.
C1_MagnetTorrentNeverDirect ==
    (calls > 0 /\ SourceClass(req.source) \in {"Magnet", "TorrentReference"}) =>
        /\ ~directInvoked
        /\ pc \notin DirectPcs
        /\ (pc = "done" /\ ~daemonSeenUp) =>
              (result.kind = "error" /\ result.msg = DaemonRequiredMsg)
        /\ (pc = "done" /\ job.status = "error") =>
              result = JobError(job.error_message)

\* the step ends the daemon attempt of a direct-URL call without a path
C2_AttemptFails ==
    /\ SourceClass(req.source) = "DirectUrl"
    /\ via = "download_uri"
    /\ pc \in DaemonPcs
    /\ pc' \notin DaemonPcs
    /\ result'.kind # "path"

\* C2: when the daemon attempt of a direct-URL call fails, the call enters
\* the Direct Fetcher with the call's source, filename and callback, and the
\* call's outcome is the outcome of the Direct Fetcher alone.
C2_FallbackEqualsDirect ==
    /\ [][C2_AttemptFails =>
            /\ pc' = "d_get"
            /\ directInvoked'
            /\ dargs' = [url |-> req.source, filename |-> req.filename, cb |-> req.cb]
            /\ served' = <<>>]_vars
    /\ []((via = "download_uri" /\ directInvoked) =>
            /\ req.use_aria2 /\ aria2_available = "True"
            /\ pc \in DirectPcs \cup {"done"}
            /\ pc # "done" => result = NoResult
            /\ pc = "done" => \E ts \in Timestamps :
                  result = DirectAlone(req.source, req.filename, ts, served))

C2_Witness ==
    /\ pc = "done"
    /\ via = "download_uri"
    /\ directInvoked
    /\ submitted = <<"add_uris">>
    /\ job.status = "error"
    /\ result.kind = "path"

\* C3: the availability check calls connect() at most once in the life of
\* the instance; once the answer is memoized it never changes and no connect
\* attempt (no new client, no handshake) is made any more, whatever the
\* daemon does.
C3_ProbeOnce ==
    /\ [](probes <= 1)
    /\ [](MemoKnown(aria2_available) <=>
              (probes = 1 /\ ~(conn.caller = "probe" /\ pc \in {"c_try", "c_wait"})))
    /\ [][aria2_available # NoneV =>
            /\ aria2_available' = aria2_available
            /\ aria2' = aria2
            /\ connected' = connected
            /\ pc' \notin {"c_try", "c_wait"}]_vars

C3_Witness ==
    /\ calls >= 2
    /\ pc = "done"
    /\ ChecksAvailability(req)
    /\ aria2_available = "False"
    /\ daemonUp
    /\ result.msg = DaemonRequiredMsg

\* C4: a finished magnet or torrent call during which the daemon was down
\* all the time has failed with the daemon-required error, whatever calls
\* came before it.
C4_DaemonRequiredAlways ==
    (/\ calls > 0
     /\ SourceClass(req.source) \in {"Magnet", "TorrentReference"}
     /\ pc = "done"
     /\ ~daemonSeenUp)
        => (result.kind = "error" /\ result.msg = DaemonRequiredMsg)

\* C5: a direct-URL call with use_aria2 false touches nothing of the daemon
\* client (no probe, no client, no handshake, no submission) and is in the
\* Direct Fetcher from its first step on; so is a direct-URL call on an
\* instance probed unavailable.
C5_NoDaemonWhenNotPreferred ==
    /\ []((/\ calls > 0
           /\ SourceClass(req.source) = "DirectUrl"
           /\ (~req.use_aria2 \/ aria2_available = "False"))
              => /\ directInvoked
                 /\ via = "none"
                 /\ submitted = <<>>
                 /\ job = NoJob
                 /\ pc \in DirectPcs \cup {"done"}
                 /\ dargs = [url |-> req.source, filename |-> req.filename,
                             cb |-> req.cb])
    /\ [][(SourceClass(req'.source) = "DirectUrl" /\ ~req'.use_aria2)
              => /\ UNCHANGED <<probes, aria2, connected, conn, aria2_available>>
                 /\ pc' \notin DaemonPcs]_vars

C5_Witness ==
    /\ pc = "done"
    /\ SourceClass(req.source) = "DirectUrl"
    /\ ~req.use_aria2
    /\ daemonUp
    /\ aria2_available = NoneV
    /\ result.kind = "path"

\* C11: within one request every progress callback carries a byte count that
\* is at least the byte count of the callback before it, unless both are
\* callbacks of the Direct Fetcher and a retry lies between them; this covers
\* the first callback of the Direct Fetcher after a daemon attempt.
C11_ProgressNonDecreasing ==
    [][(reported' # reported /\ reported'.by # "none" /\ reported.by # "none") =>
          \/ reported'.bytes >= reported.bytes
          \/ /\ reported.by = "direct"
             /\ reported'.by = "direct"
             /\ reported'.attempt > reported.attempt]_vars

\* C19: a call whose source names an existing local file without the
\* .torrent suffix is handled as a torrent: it is never handed to
\* download_uri or to the Direct Fetcher, every submission it makes is
\* add_torrent, and without the daemon it fails with the daemon-required
\* error.
C19_ExistingPathIsTorrent ==
    (/\ calls > 0
     /\ req.source \in ExistingPaths
     /\ ~StartsWith(req.source, <<"m", "a", "g", "n", "e", "t", ":">>)
     /\ ~EndsWith(req.source, DotTorrent))
        => /\ ~directInvoked
           /\ pc \notin DirectPcs
           /\ via \in {"none", "download_torrent"}
           /\ \A i \in 1..Len(submitted) : submitted[i] = "add_torrent"
           /\ (pc = "done" /\ aria2_available = "False") =>
                 (result.kind = "error" /\ result.msg = DaemonRequiredMsg)

\* C20: a call whose source starts with magnet: goes to download_magnet and
\* submits add_magnet only, whatever else the string is; only a source that
\* is neither a magnet nor a torrent reference is handled as a direct URL
\* (download_uri, add_uris or the Direct Fetcher).
C20_MagnetFirst ==
    calls > 0 =>
        /\ StartsWith(req.source, <<"m", "a", "g", "n", "e", "t", ":">>) =>
              /\ via \in {"none", "download_magnet"}
              /\ ~directInvoked
              /\ \A i \in 1..Len(submitted) : submitted[i] = "add_magnet"
        /\ (\/ directInvoked
            \/ via = "download_uri"
            \/ \E i \in 1..Len(submitted) : submitted[i] = "add_uris")
              => SourceClass(req.source) = "DirectUrl"

\* C21: while the Direct Fetcher works for a call, no job that the call
\* submitted to the daemon is still active there.
C21_OneActiveTransfer ==
    pc \in DirectPcs => job.status # "active"

\* C22: a finished download() call has returned a non-empty path or raised:
\* a call that ended in the Direct Fetcher returned only when the last GET
\* succeeded and raised otherwise; a call that ended in the daemon client
\* returned only for a complete job and raised the job's error, the RPC
\* error or the daemon-required error otherwise.
C22_PathOrError ==
    (calls > 0 /\ pc = "done") =>
        /\ result.kind \in {"path", "error"}
        /\ result.kind = "path" => result.path # <<>>
        /\ result.kind = "error" => result.cls # "none"
        /\ directInvoked =>
              /\ served # <<>>
              /\ result.kind = "path" <=> served[Len(served)] = "ok"
        /\ ~directInvoked =>
              /\ result.kind = "path" =>
                    /\ job.status = "complete"
                    /\ submitted # <<>>
                    /\ result.path \in {<<DownloadDir, JobName>>} \cup
                           {job.files[i] : i \in 1..Len(job.files)} \cup
                           {SubSeq(job.files[i], 1, Len(job.files[i]) - 1) :
                               i \in 1..Len(job.files)}
              /\ job.status = "error" =>
                    (result.kind = "error" /\ result.cls = "Exception")
              /\ submitted = <<>> => result.kind = "error"

C22_Witness ==
    /\ pc = "done"
    /\ via = "download_magnet"
    /\ job.status = "error"
    /\ result.kind = "error"
    /\ result.msg = "Download error"

(***************************************************************************)
(* Claims about Aria2Downloader.connect (checked under SpecConnect)        *)
(***************************************************************************)
\* C13: a connect(max_retries, initial_wait) call makes a handshake attempt
\* only while fewer than max_retries attempts have failed, and every attempt
\* either succeeds and ends the call or counts as one more failure; the wait
\* after the k-th failure is initial_wait * 2^(k-1), there is one wait after
\* every failure but the last of max_retries; after max_retries failures the
\* call has raised the ConnectionError that names the endpoint and reports
\* the error of the last attempt, and it raises in no other case.
C13_ConnectRetries ==
    /\ [](calls > 0 =>
            /\ conn.caller = "connect"
            /\ conn.retry_count <= Max(conn.max_retries, 0)
            /\ \A k \in 1..Len(csleeps) : csleeps[k] = conn.initial_wait * 2 ^ (k - 1)
            /\ Len(csleeps) = IF pc = "done" /\ result.kind = "error"
                              THEN conn.max_retries - 1 ELSE conn.retry_count
            /\ pc = "c_wait" => conn.retry_count < conn.max_retries
            /\ (pc = "done" /\ conn.retry_count >= 1
                            /\ conn.retry_count = conn.max_retries)
                  => /\ result.kind = "error"
                     /\ result.cls = "ConnectionError"
                     /\ result.msg = "Cannot connect to aria2 RPC"
                     /\ result.text = Aria2Address
                     /\ result.cause = conn.last_error
                     /\ conn.last_error = Err("RPCError", conn.max_retries)
            /\ (pc = "done" /\ result.kind = "error")
                  => (conn.retry_count >= 1 /\ conn.retry_count = conn.max_retries))
    /\ [][aria2' # aria2 =>
            /\ pc = "c_try"
            /\ conn.retry_count < conn.max_retries
            /\ aria2' = aria2 + 1
            /\ \/ conn'.retry_count = conn.retry_count + 1 /\ ~connected'
               \/ pc' = "done" /\ result' = ReturnedTrue /\ connected']_vars

C13_Witness ==
    /\ pc = "done"
    /\ conn.max_retries = 4
    /\ conn.initial_wait = 3
    /\ csleeps = <<3, 6, 12>>
    /\ result.kind = "error"
    /\ result.cause = Err("RPCError", 4)

\* C14: once a connect() call has succeeded on the instance, a later
\* connect() call returns True at once, and no step creates a client or makes
\* a handshake any more, whatever the daemon does: the client of the first
\* success stays the instance's client.
C14_ConnectCached ==
    /\ [](connected => (aria2 # 0 /\ pc \notin {"c_try", "c_wait"}))
    /\ [][connected =>
            /\ connected'
            /\ aria2' = aria2
            /\ pc' \notin {"c_try", "c_wait"}
            /\ calls' = calls + 1 => (pc' = "done" /\ result' = ReturnedTrue)]_vars

C14_Witness ==
    /\ calls >= 2
    /\ pc = "done"
    /\ result = ReturnedTrue
    /\ conn.retry_count = 0
    /\ csleeps = <<>>
    /\ connected
    /\ ~daemonUp
    /\ ~daemonSeenUp

(***************************************************************************)
(* Claims about Aria2Downloader._monitor_download (checked under           *)
(* SpecMonitor)                                                            *)
(***************************************************************************)
MonitorPcs == {"monitor", "m_poll"}

\* C15: the poll whose refresh shows an error message ends the monitor at
\* once: it raises the "Download error" exception whose text is the message
\* with every '<' and '>' taken out (a space stands in its place), it makes
\* no progress callback, and once the job shows an error no poll follows and
\* no path is returned.
C15_ErrorEndsMonitor ==
    /\ [][(pc = "m_poll" /\ job'.error_message # <<>>) =>
            /\ polls' = polls + 1
            /\ pc' = "done"
            /\ result'.kind = "error"
            /\ result'.cls = "Exception"
            /\ result'.msg = "Download error"
            /\ Len(result'.text) = Len(job'.error_message)
            /\ \A i \in 1..Len(result'.text) :
                  /\ result'.text[i] \notin {"<", ">"}
                  /\ result'.text[i] = IF job'.error_message[i] \in {"<", ">"}
                                       THEN " " ELSE job'.error_message[i]
            /\ UNCHANGED <<reported, cbCount, lastCb>>]_vars
    /\ [](job.error_message # <<>> =>
            /\ pc = "done"
            /\ job.status = "error"
            /\ result.kind = "error"
            /\ result.msg = "Download error")

C15_Witness ==
    /\ pc = "done"
    /\ job.error_message = E_msg
    /\ result.text = <<" ", "e", " ">>
    /\ req.cb
    /\ polls = 2
    /\ cbCount = 1
    /\ reported = [by |-> "monitor", attempt |-> 0, bytes |-> 1]

\* C16: every refresh of the loop comes right after a sleep of 2 seconds; a
\* path is returned only for a job that a refresh has shown complete and
\* free of error; the monitor ends only with that path or with an error; and
\* a running monitor always ends, the daemon bringing every job to complete
\* or error.
C16_MonitorUntilComplete ==
    /\ [][polls' = polls + 1 =>
            /\ pc = "m_poll"
            /\ Len(sleeps) = polls + 1
            /\ sleeps[polls + 1] = 2]_vars
    /\ [][(pc' = "m_poll" /\ pc # "m_poll") =>
            (pc = "monitor" /\ job.status # "complete")]_vars
    /\ []((pc = "done" /\ result.kind = "path") =>
            /\ job.status = "complete"
            /\ job.error_message = <<>>
            /\ Len(sleeps) = polls)
    /\ [](pc = "done" => result.kind \in {"path", "error"})
    /\ (pc \in MonitorPcs) ~> (pc = "done")

C16_Witness ==
    /\ pc = "done"
    /\ result.kind = "path"
    /\ polls = 2
    /\ sleeps = <<2, 2>>
    /\ job.completed_length = 2

\* C17: the path the monitor returns is <download_dir>/<job name> for a job
\* without output files, the file's path for a job with one output file, and
\* the directory holding the first file for a job with several.
C17_ResultPathByFileCount ==
    (pc = "done" /\ result.kind = "path") =>
        /\ Len(job.files) = 0 => result.path = <<DownloadDir, JobName>>
        /\ Len(job.files) = 1 => result.path = job.files[1]
        /\ Len(job.files) > 1 =>
              /\ Len(result.path) = Len(job.files[1]) - 1
              /\ \A i \in 1..Len(result.path) : result.path[i] = job.files[1][i]

C17_Witness ==
    /\ pc = "done"
    /\ result.kind = "path"
    /\ job.files = <<P1, P2>>
    /\ result.path = <<DownloadDir, <<"a">> >>

\* C18: every output file of a finished job with several files lies under
\* the directory the monitor returns.
C18_CommonParent ==
    (pc = "done" /\ result.kind = "path" /\ Len(job.files) > 1) =>
        \A i \in 1..Len(job.files) :
            /\ Len(job.files[i]) > Len(result.path)
            /\ SubSeq(job.files[i], 1, Len(result.path)) = result.path

(***************************************************************************)
(* Claims about DirectDownloader.download (checked under SpecDirect)       *)
(***************************************************************************)
RECURSIVE SumLens(_)
SumLens(cs) == IF cs = <<>> THEN 0 ELSE Head(cs) + SumLens(Tail(cs))

TransportKinds == {"conn_get", "timeout_get", "payload"}

\* C6: a non-2xx response ends the fetch at once: no GET follows it, no
\* backoff wait follows it and the call has failed; only connection errors
\* and timeouts are followed by another attempt.
C6_NoRetryOnHttpStatus ==
    \A i \in 1..Len(served) :
        /\ served[i] = "status" =>
              /\ Len(served) = i
              /\ Len(sleeps) < i
              /\ pc = "done" /\ result.kind = "error"
        /\ i < Len(served) => served[i] \in TransportKinds

\* C7: at most 3 attempts; a success is the last attempt and is returned;
\* after two transport failures a third attempt is made, and when it succeeds
\* the call returns a path; a third transport failure raises the
\* download-failed error carrying that last error; a finished call has
\* returned a non-empty path or raised.
C7_AtMostThreeAttempts ==
    /\ Len(served) <= 3
    /\ retry_count = 3 => pc = "done"
    /\ \A i \in 1..Len(served) : served[i] = "ok" => i = Len(served)
    /\ pc = "done" =>
          /\ result.kind \in {"path", "error"}
          /\ result.kind = "path" <=> (served # <<>> /\ served[Len(served)] = "ok")
          /\ result.kind = "path" => result.path # <<>>
          /\ (Len(served) >= 2 /\ served[1] \in TransportKinds /\ served[2] \in TransportKinds)
                => Len(served) = 3
          /\ (Len(served) = 3 /\ served[3] \in TransportKinds)
                => /\ result.kind = "error"
                   /\ result.msg = "Download failed after retries"
                   /\ result.cause = lastErr
                   /\ lastErr.at = 3
                   /\ lastErr.cls = RaisedClass(served[3])

C7_Witness ==
    /\ pc = "done"
    /\ served = <<"conn_get", "payload", "ok">>
    /\ result.kind = "path"

\* C8: the waits of one fetch are 2s after the first failed attempt and 4s
\* after the second; every attempt but the first is preceded by its wait,
\* and no wait follows the third failed attempt.
C8_LinearBackoff ==
    /\ \A k \in 1..Len(sleeps) : sleeps[k] = 2 * k
    /\ Len(sleeps) <= 2
    /\ pc = "d_sleep" => (Len(sleeps) = retry_count /\ Len(served) = retry_count)
    /\ pc \in {"d_get", "d_stream"} => Len(sleeps) = retry_count
    /\ (pc = "done" /\ retry_count = 3) => sleeps = <<2, 4>>

C8_Witness ==
    /\ pc = "done"
    /\ retry_count = 3
    /\ sleeps = <<2, 4>>

\* C9: when the call returns a path, the file at that path holds exactly the
\* chunks of the successful attempt, in order, and its size is the
\* downloaded byte count of that attempt.
C9_FileIsLastAttempt ==
    (pc = "done" /\ result.kind = "path") =>
        /\ result.path \in DOMAIN disk
        /\ disk[result.path] =
              [i \in 1..Len(resp.chunks) |->
                  [at |-> Len(served), len |-> resp.chunks[i]]]
        /\ SumLens(resp.chunks) = downloaded

C9_Witness ==
    /\ pc = "done"
    /\ result.kind = "path"
    /\ Len(served) > 1
    /\ writes > Len(resp.chunks)
    /\ Len(resp.chunks) > 0

\* C12: the percentage of every progress callback lies in [0, 100], also
\* when more bytes have arrived than the content length declared; a callback
\* of the monitor for a job of total length 0 carries 0.
C12_PercentageInRange ==
    /\ 0 <= lastCb.pct_num
    /\ lastCb.pct_num <= 100 * lastCb.pct_den
    /\ (reported.by = "monitor" /\ lastCb.total = 0) => lastCb.pct_num = 0

\* C10: with a callback supplied, every chunk written is reported exactly
\* once, with the accumulated byte count, also when no content length was
\* declared.
C10_CallbackPerChunk ==
    dargs.cb =>
        /\ cbCount = writes
        /\ cbCount > 0 => lastCb.downloaded = downloaded

(***************************************************************************)
(* Claims about requests in flight together (checked under SpecLoop)       *)
(***************************************************************************)
\* the request of task t has just returned the path of a file the Direct
\* Fetcher wrote
DirectReturn(t) ==
    /\ task[t].pc = "d_chunk"
    /\ task'[t].pc = "done"

\* C23: when a direct fetch returns, the file it returns holds exactly the
\* bytes of its own request, as many as it counted, whatever the other
\* request in flight did and also when both write to the same filename.
C23_OwnBytesOnly ==
    [][\A t \in Tasks :
          DirectReturn(t) =>
              fdisk'[task[t].filename] = [i \in 1..task[t].downloaded |-> t]]_vars

\* C24: a task that waits for the daemon (a connection attempt, a back-off
\* wait, an RPC call) does not hold the loop's thread, so the other request
\* in flight can take its steps.
C24_DaemonWaitsSuspend ==
    \A t \in Tasks : task[t].pc \in DaemonWaitPcs => holder # t

(***************************************************************************)
(* Claims about bot.process_download (checked under SpecBot)               *)
(***************************************************************************)
\* C25: when process_download has returned, close() has been called on the
\* DownloadManager it created and the manager's session is not open.
C25_ManagerClosed ==
    pc = "returned" => (closes > 0 /\ session # "open")

(***************************************************************************)
(* Claims about sanitize_filename (checked under SpecSanitize)             *)
(***************************************************************************)
\* the name after replacement, stripping and the default, before the split
Cleaned(f) ==
    IF Strip(ReplaceIllegal(f), {".", " "}) = <<>>
    THEN <<"d", "o", "w", "n", "l", "o", "a", "d">>
    ELSE Strip(ReplaceIllegal(f), {".", " "})

\* C26: the name returned is at most max_length characters long and holds
\* none of < > : " / \ | ? * and no control character.
C26_LengthAndCharset ==
    s_result # NotCalled =>
        /\ Len(s_result) <= s_max_length
        /\ \A i \in 1..Len(s_result) :
              s_result[i] \notin {"<", ">", ":", "\"", "/", "\\", "|", "?", "*", "\t", "\n"}

C26_Witness ==
    /\ s_filename = <<"/", "a", ".", "a">>
    /\ s_max_length = 1
    /\ s_result = <<"_">>

\* C27: when the cleaned name has an extension e and max_length >= len(e),
\* the name returned ends with e, its stem is a prefix of the cleaned stem
\* and is at most max_length - len(e) characters long.
C27_ExtensionKept ==
    LET c == Cleaned(s_filename)
        d == LastIndexOf(c, ".")
        e == SubSeq(c, d, Len(c))
        n == Len(s_result) - Len(e)
    IN  (s_result # NotCalled /\ d > 0 /\ s_max_length >= Len(e)) =>
            /\ n >= 0
            /\ n <= s_max_length - Len(e)
            /\ SubSeq(s_result, n + 1, Len(s_result)) = e
            /\ SubSeq(s_result, 1, n) = SubSeq(c, 1, n)

C27_Witness ==
    /\ s_filename = <<"a", "a", ".", "a">>
    /\ s_max_length = 3
    /\ s_result = <<"a", ".", "a">>

\* C28: for max_length >= 1 the name returned is not empty and neither
\* begins nor ends with a space or a '.'.
C28_NoEdgeSpaceOrDot ==
    (s_result # NotCalled /\ s_max_length >= 1) =>
        /\ s_result # <<>>
        /\ s_result[1] \notin {" ", "."}
        /\ s_result[Len(s_result)] \notin {" ", "."}

\* C29: with the default max_length, a filename made of spaces and dots only
\* (the empty one among them) gives "download".
C29_EmptyGivesDownload ==
    (/\ s_result # NotCalled
     /\ s_max_length = 255
     /\ \A i \in 1..Len(s_filename) : s_filename[i] \in {" ", "."})
        => s_result = <<"d", "o", "w", "n", "l", "o", "a", "d">>

C29_Witness ==
    /\ s_filename = <<".", " ", ".">>
    /\ s_max_length = 255
    /\ s_result = <<"d", "o", "w", "n", "l", "o", "a", "d">>

\* C30: a valid name (not empty, at most max_length long, without illegal
\* character, not beginning or ending with a space or '.') is returned as it
\* is; and for every filename at most max_length long, sanitizing the name
\* returned gives that name again.
C30_IdentityOnValid ==
    s_result # NotCalled =>
        /\ (/\ s_filename # <<>>
            /\ Len(s_filename) <= s_max_length
            /\ \A i \in 1..Len(s_filename) : s_filename[i] \notin IllegalChars
            /\ s_filename[1] \notin {" ", "."}
            /\ s_filename[Len(s_filename)] \notin {" ", "."})
              => s_result = s_filename
        /\ Len(s_filename) <= s_max_length
              => sanitize_filename(s_result, s_max_length) = s_result

C30_Witness ==
    /\ s_filename = <<"a", " ", ".", "a">>
    /\ s_max_length = 4
    /\ s_result = s_filename

(***************************************************************************)
(* Claims about the path the Direct Fetcher writes (checked under          *)
(* SpecResolve)                                                            *)
(***************************************************************************)
\* C31: the path the Direct Fetcher writes is a direct child of
\* download_dir: its last component has none of the characters
\* sanitize_filename replaces, in particular no path separator, and is not
\* empty, '.' or '..'.
C31_DirectChild ==
    filepath # <<>> =>
        /\ Len(filepath) = 2
        /\ filepath[1] = DownloadDir
        /\ \A i \in 1..Len(filepath[2]) : filepath[2][i] \notin IllegalChars
        /\ filepath[2] \notin {<<>>, <<".">>, <<".", ".">>}
        /\ Len(filepath[2]) <= DefaultMaxLength

C31_Witness ==
    /\ s_filename = <<".", ".", "/", "a">>
    /\ filepath = <<DownloadDir, <<"_", "a">> >>

(***************************************************************************)
(* Claims about the session of a DirectDownloader (checked under           *)
(* SpecSession)                                                            *)
(***************************************************************************)
OpenSessions == {i \in 1..Len(sessions) : sessions[i] = "open"}

\* C32: _get_session returns a session that is not closed, the same one
\* while it is open and a new one only when there is none or it is closed;
\* close() leaves the current session closed; at most one session the
\* instance created is open at any time, and it is the current one.
C32_OneOpenSession ==
    [][/\ Cardinality(OpenSessions') <= 1
       /\ OpenSessions' \subseteq {Len(sessions')}
       /\ (session' = "open") <=> (OpenSessions' # {})
       /\ pc' = "got" =>
             /\ session' = "open"
             /\ session = "open" => sessions' = sessions
             /\ session # "open" => /\ Len(sessions') = Len(sessions) + 1
                                    /\ SubSeq(sessions', 1, Len(sessions)) = sessions
       /\ pc' = "closed" =>
             /\ session' # "open"
             /\ Len(sessions') = Len(sessions)]_vars

\* a session was closed and _get_session made a second one
C32_Witness ==
    /\ pc = "got"
    /\ sessions = <<"closed", "open">>

(***************************************************************************)
(* Claims about the chat layer's call of the orchestrator (checked under   *)
(* SpecBot)                                                                *)
(***************************************************************************)
\* C33: in the call process_download makes, the filename is unset and the
\* chat layer's progress function is the progress callback; so no call
\* fails on the type of its filename.
C33_CallbackBound ==
    calls > 0 =>
        /\ req.filename = <<>>
        /\ req.cb
        /\ result # SanitizeTypeError

(***************************************************************************)
(* Claims about bot.authorized_only (checked under SpecAuth)               *)
(***************************************************************************)
\* the sender of the update just handled may use the bot
Allowed == auth'.allowed = {} \/ auth'.user \in auth'.allowed

\* C34: for every update the wrapper handles, the handler body runs once and
\* no reply is sent when the allow-list is empty or has the sender's id;
\* otherwise the body does not run and one not-authorized reply is sent.
C34_AuthorizedOnly ==
    [][auth'.updates = auth.updates + 1 =>
          /\ auth'.allowed = auth.allowed
          /\ Allowed => (auth'.ran = auth.ran + 1 /\ auth'.denied = auth.denied)
          /\ ~Allowed => (auth'.ran = auth.ran /\ auth'.denied = auth.denied + 1)]_vars

\* with user 1 alone on the allow-list, user 2 was turned away after user 1
\* was served
C34_Witness ==
    /\ auth.allowed = {1}
    /\ auth.user = 2
    /\ auth.ran = 1
    /\ auth.denied = 1

(***************************************************************************)
(* Claims about calls on one Aria2Downloader (checked under SpecAria2)     *)
(***************************************************************************)
\* C35: the instance has a client only when its connection is marked
\* verified, and a job is submitted only by an instance whose handshake has
\* succeeded.
C35_ClientImpliesVerified ==
    /\ aria2 # 0 => connected
    /\ submitted # <<>> => connected

\* C36 (checked under SpecConnect): a connect() call that is over has
\* returned True with a verified connection cached on the instance, or it
\* has raised.
C36_TrueOrRaises ==
    (calls > 0 /\ pc = "done") =>
        \/ result = ReturnedTrue /\ connected /\ aria2 # 0
        \/ result.kind = "error"

\* C37 (checked under SpecMonitor): a path the monitor returns comes from a
\* job seen complete and without error; when the submitted job was followed
\* by a successor, the successor was seen complete.
C37_PathFromCompletedJob ==
    (pc = "done" /\ result.kind = "path") =>
        /\ job.status = "complete"
        /\ job.error_message = <<>>
        /\ job.followed_by => job.successor = "complete"

====
